---- MODULE Spec2Model ----
(***************************************************************************)
(* Login route of the session-cookie exercise                              *)
(* (app/routes/_auth+/login.tsx): the loader, the action, and the parts of *)
(* ~/utils/auth.server.ts and ~/utils/session.server.ts they call.         *)
(*                                                                         *)
(* Every HTTP request is one step of its handler.  The loader is the guard *)
(* and the empty JSON response.  The action is the guard (line 40) and,    *)
(* when the guard lets the request through, the rest of the handler (lines *)
(* 41-93), which reads the body, parses it (calling login) and builds the  *)
(* response.  Time passes while the handler awaits, so the Date.now() of   *)
(* line 89 may be later than the time at which login ran.  The clock and   *)
(* the Session Store are shared by all requests; `answered` is the request *)
(* answered last.                                                          *)
(*                                                                         *)
(* Optional values (null / undefined) are sets of at most one element.     *)
(* JavaScript objects whose fields come and go (the submission payload and *)
(* value, the cookie session data) are functions over the set of field     *)
(* names present, so that `delete` and `set` act as they do in the code.   *)
(***************************************************************************)
EXTENDS Integers, FiniteSets, TLC

\* ---------------------------------------------------------------- bounds
MaxSessions == 1
MaxTime == 2

\* ------------------------------------------------------ program constants
SESSION_EXPIRATION_TIME == 1
userIdKey == "userId"
sessionKey == "sessionId"

SessionIds == 1..MaxSessions

None == {}
Some(x) == {x}
The(opt) == CHOOSE x \in opt : TRUE

EmptyObject == [k \in {} |-> ""]
Delete(obj, key) == [k \in DOMAIN obj \ {key} |-> obj[k]]
Set(obj, key, val) == [k \in DOMAIN obj \cup {key} |-> IF k = key THEN val ELSE obj[k]]

\* ------------------------------------------------------- Credential Store
Users == [alice |-> [id |-> 101, username |-> "alice", password |-> "correct-horse"],
          bob   |-> [id |-> 102, username |-> "bob",   password |-> "battery-staple"]]
\* the credentials a client submits: right ones, a wrong password, an unknown username
Credentials == {<<"alice", "correct-horse">>, <<"bob", "battery-staple">>,
                <<"alice", "wrong">>, <<"carol", "correct-horse">>}
UserIds == {Users[n].id : n \in DOMAIN Users}

verifyUserPassword(username, password) ==
    IF username \in DOMAIN Users /\ Users[username].password = password
    THEN Some(Users[username])
    ELSE None

VARIABLES
    clock,      \* Date.now()
    sessions,   \* Session Store: session id -> [id, userId, expiresAt]
    nextId,     \* the next fresh session id
    served,     \* parity of the number of requests answered so far
    answered    \* the request answered last: [route, outcome, cookieHeader, formData, submission, response]

vars == <<clock, sessions, nextId, served, answered>>

\* ---------------------------------------------------------- Session Store
IsExpired(session, now) == session.expiresAt # None /\ The(session.expiresAt) < now

SessionGet(store, sid, now) ==
    IF sid \in DOMAIN store /\ ~IsExpired(store[sid], now) THEN Some(store[sid]) ELSE None

SessionCreate(store, sid, userId, expiresAt, now) ==
    Set(store, sid, [id |-> sid, userId |-> userId, expiresAt |-> expiresAt])

\* ---------------------------------------------------- Session Cookie Codec
NoHeader == [form |-> "absent", data |-> EmptyObject]
EmptyHeader == [form |-> "empty", data |-> EmptyObject]
MalformedHeader == [form |-> "malformed", data |-> [k \in {sessionKey} |-> 1]]
SignedHeader(sid) == [form |-> "signed", data |-> [k \in {sessionKey} |-> sid]]
CookieHeaders == {NoHeader, EmptyHeader, MalformedHeader} \cup {SignedHeader(sid) : sid \in SessionIds}

getSession(header) == IF header.form = "signed" THEN header.data ELSE EmptyObject

decode(header) ==
    LET data == getSession(header)
    IN  IF sessionKey \in DOMAIN data THEN Some(data[sessionKey]) ELSE None

commitSession(data, expires) == [present |-> TRUE, data |-> data, expires |-> expires]
NoSetCookie == [present |-> FALSE, data |-> EmptyObject, expires |-> None]

\* --------------------------------------------------------- Anonymous Guard
requireAnonymous(header, store, now) ==
    LET sid == decode(header)
    IN  IF sid # None /\ SessionGet(store, The(sid), now) # None THEN "redirect" ELSE "proceed"

\* --------------------------------------------------------------- responses
NoSubmission == [intent |-> "", payload |-> EmptyObject, value |-> None, error |-> {}]
NoResponse == [kind |-> "none", status |-> 0, location |-> "", data |-> "", submission |-> NoSubmission,
               setCookie |-> NoSetCookie]
redirect(location, setCookie) ==
    [kind |-> "redirect", status |-> 302, location |-> location, data |-> "", submission |-> NoSubmission,
     setCookie |-> setCookie]
json(data, sub, status) ==
    [kind |-> "json", status |-> status, location |-> "", data |-> data, submission |-> sub,
     setCookie |-> NoSetCookie]

GuardRedirect == redirect("/", NoSetCookie)

\* an answered request: the handler (route), how it ended ("thrown" by the guard or "returned"),
\* request.headers.get('cookie'), request.formData(), the action's `submission` as the parse
\* left it, and the response
NoFormData == [intent |-> "", payload |-> EmptyObject]
Request(route, outcome, header, form, sub, resp) ==
    [route |-> route, outcome |-> outcome, cookieHeader |-> header, formData |-> form,
     submission |-> sub, response |-> resp]

Init ==
    /\ clock = 0
    /\ sessions = [k \in {} |-> 0]
    /\ nextId = 1
    /\ served = 0
    /\ answered = Request("", "", NoHeader, NoFormData, NoSubmission, NoResponse)

\* ------------------------------------------------------------------ loader
loaderResponse_SetsCookie(header, store, now) ==
    IF requireAnonymous(header, store, now) = "redirect" THEN GuardRedirect
    ELSE [json("{}", NoSubmission, 200) EXCEPT !.setCookie = commitSession(EmptyObject, None)]

loaderResponse(header, store, now) ==
    IF requireAnonymous(header, store, now) = "redirect" THEN GuardRedirect
    ELSE json("{}", NoSubmission, 200)

loader ==
    /\ \E header \in CookieHeaders :
        LET resp == loaderResponse(header, sessions, clock)
        IN  answered' = Request("loader", IF resp = GuardRedirect THEN "thrown" ELSE "returned",
                                header, NoFormData, NoSubmission, resp)
    /\ served' = 1 - served
    /\ UNCHANGED <<clock, sessions, nextId>>

\* ------------------------------------------------------ Login Orchestrator
getSessionExpirationDate(remember, now) ==
    IF remember THEN Some(now + SESSION_EXPIRATION_TIME) ELSE None

login_CreatesFirst(data, store, sid, now) ==
    LET user == verifyUserPassword(data["username"], data["password"])
        expiresAt == getSessionExpirationDate(data["remember"], now)
        userId == IF user = None THEN CHOOSE id \in UserIds : TRUE ELSE The(user).id
    IN  [session |-> IF user = None THEN None
                     ELSE Some(SessionCreate(store, sid, userId, expiresAt, now)[sid]),
         store |-> SessionCreate(store, sid, userId, expiresAt, now)]

login(data, store, sid, now) ==
    LET user == verifyUserPassword(data["username"], data["password"])
        expiresAt == getSessionExpirationDate(data["remember"], now)
    IN  IF user = None
        THEN [session |-> None, store |-> store]
        ELSE [session |-> Some(SessionCreate(store, sid, The(user).id, expiresAt, now)[sid]),
              store |-> SessionCreate(store, sid, The(user).id, expiresAt, now)]

\* ------------------------------------------------------------------ action
Intents == {"submit", "validate/username"}

\* request.formData(): the intent and the fields the browser sends (a checkbox only when checked)
FormPayload(username, password, remember) ==
    IF remember
    THEN ("username" :> username) @@ ("password" :> password) @@ ("remember" :> "on")
    ELSE ("username" :> username) @@ ("password" :> password)

FormDatas ==
    {[intent |-> intent, payload |-> FormPayload(credential[1], credential[2], remember)] :
        intent \in Intents, credential \in Credentials, remember \in BOOLEAN}

\* LoginFormSchema: the parsed data handed to the transform
LoginFormSchema(payload) ==
    ("username" :> payload["username"]) @@ ("password" :> payload["password"])
        @@ ("remember" :> ("remember" \in DOMAIN payload))

callsLogin_Always(intent) == TRUE

callsLogin(intent) == intent = "submit"

issueMessage_Differentiated(data) ==
    IF data["username"] \in DOMAIN Users THEN "Invalid password" ELSE "Unknown username"

issueMessage(data) == "Invalid username or password"

\* the transform of lines 44-60, given what login returned: the value, or the issues
transformSchema(intent, data, session) ==
    IF ~callsLogin(intent)
    THEN [value |-> Some(data @@ ("user" :> None)), error |-> {}]
    ELSE IF session = None
         THEN [value |-> None, error |-> {issueMessage(data)}]
         ELSE [value |-> Some(data @@ ("user" :> session)), error |-> {}]

guardThrows_Never(header, store, now) == FALSE

\* line 40: `await requireAnonymous(request)` throws the redirect
guardThrows(header, store, now) == requireAnonymous(header, store, now) = "redirect"

\* parse(formData, {schema, async: true}) of lines 41-62, given what login returned
parse(form, session) ==
    LET parsed == transformSchema(form.intent, LoginFormSchema(form.payload), session)
    IN  [intent |-> form.intent, payload |-> form.payload, value |-> parsed.value, error |-> parsed.error]

deletePayloadPassword(sub) == [sub EXCEPT !.payload = Delete(@, "password")]

deleteValuePassword_Kept(sub) == sub

deleteValuePassword(sub) ==
    [sub EXCEPT !.value = IF @ = None THEN None ELSE Some(Delete(The(@), "password"))]

hasUser(sub) == sub.value # None /\ The(sub.value)["user"] # None

cookieExpires_Always(remember, now) == Some(now + SESSION_EXPIRATION_TIME)

cookieExpires(remember, now) == IF remember THEN Some(now + SESSION_EXPIRATION_TIME) ELSE None

safeRedirect == "/"

idleResponse(sub) == json("idle", deleteValuePassword(sub), 200)

errorResponse_Ok(sub) == json("error", sub, 200)

errorResponse(sub) == json("error", sub, 400)

successResponse(sub, header, now) ==
    LET value == The(sub.value)
        user == The(value["user"])
        cookieSession == Set(getSession(header), userIdKey, user.id)
    IN  redirect(safeRedirect, commitSession(cookieSession, cookieExpires(value["remember"], now)))

\* lines 64-93
actionResponse(sub0, header, now) ==
    LET sub == deletePayloadPassword(sub0)
    IN  IF sub.intent # "submit" THEN idleResponse(sub)
        ELSE IF ~hasUser(sub) THEN errorResponse(sub)
        ELSE successResponse(sub, header, now)

\* lines 41-93 as a function of the request and of what it reads: login runs at `loginTime` with
\* `sid` as the fresh session id, line 89 reads Date.now() as `now`
actionResult(header, form, store, sid, loginTime, now) ==
    LET result == IF callsLogin(form.intent)
                  THEN login(LoginFormSchema(form.payload), store, sid, loginTime)
                  ELSE [session |-> None, store |-> store]
        sub == parse(form, result.session)
    IN  [session |-> result.session, store |-> result.store, submission |-> sub,
         response |-> actionResponse(sub, header, now)]

\* lines 39-94: a request the guard turns away ends there, its body unread
action ==
    /\ \E header \in CookieHeaders, form \in FormDatas :
        IF guardThrows(header, sessions, clock)
        THEN /\ answered' = Request("action", "thrown", header, form, NoSubmission, GuardRedirect)
             /\ UNCHANGED <<clock, sessions, nextId>>
        ELSE \E now \in {t \in {clock, clock + 1} : t <= MaxTime} :
                LET result == actionResult(header, form, sessions, nextId, clock, now)
                IN  /\ result.session # None => nextId <= MaxSessions
                    /\ sessions' = result.store
                    /\ nextId' = IF result.session # None THEN nextId + 1 ELSE nextId
                    /\ clock' = now
                    /\ answered' = Request("action", "returned", header, form, result.submission,
                                           result.response)
    /\ served' = 1 - served

\* ------------------------------------------------------------- environment
Tick ==
    /\ clock < MaxTime
    /\ clock' = clock + 1
    /\ UNCHANGED <<sessions, nextId, served, answered>>

\* Session Store delete(sessionId), called by a logout elsewhere in the application
deleteSession ==
    /\ \E sid \in DOMAIN sessions : sessions' = [k \in DOMAIN sessions \ {sid} |-> sessions[k]]
    /\ UNCHANGED <<clock, nextId, served, answered>>

Next ==
    \/ loader
    \/ action
    \/ Tick
    \/ deleteSession

Spec == Init /\ [][Next]_vars

\* ================================================================ properties
\* the step is a handler answering a request: `answered'` is that request
Answers == served' # served
\* the step is the action answering a request that its guard let through
Handled == Answers /\ answered'.route = "action" /\ answered'.outcome = "returned"

IsSubmit(form) == form.intent = "submit"
IsValidation(form) == form.intent \in Intents \ {"submit"}
Remember(form) == "remember" \in DOMAIN form.payload
CredentialsMatch(form) ==
    /\ form.payload["username"] \in DOMAIN Users
    /\ Users[form.payload["username"]].password = form.payload["password"]
VerifiedUserId(form) == Users[form.payload["username"]].id
\* the Session that login returned to the answered request
LoginSession(rq) == The(The(rq.submission.value)["user"])

\* the session the cookie header names is in the store and has not expired
EncodesLiveSession(header) ==
    /\ header.form = "signed"
    /\ sessionKey \in DOMAIN header.data
    /\ header.data[sessionKey] \in DOMAIN sessions
    /\ \A t \in sessions[header.data[sessionKey]].expiresAt : t >= clock

\* the Cookie header a client sends back after receiving this Set-Cookie
CookieOf(resp) == [form |-> "signed", data |-> resp.setCookie.data]

InvalidCredentialsResponse(resp) ==
    /\ resp.kind = "json" /\ resp.status = 400 /\ resp.data = "error"
    /\ resp.submission.error = {"Invalid username or password"}
    /\ ~resp.setCookie.present

IdleResponse(resp) ==
    /\ resp.kind = "json" /\ resp.status = 200 /\ resp.data = "idle"
    /\ ~resp.setCookie.present

LoginRedirect(resp) == resp.kind = "redirect" /\ resp.setCookie.present

StoreUnchanged == sessions' = sessions /\ nextId' = nextId

FailedSubmission(rq) ==
    rq.route = "action" /\ IsSubmit(rq.formData) /\ ~CredentialsMatch(rq.formData)
SuccessfulLogin(rq) ==
    /\ rq.route = "action" /\ rq.outcome = "returned"
    /\ IsSubmit(rq.formData) /\ CredentialsMatch(rq.formData)

\* ---------------------------------------------------------------------- C1
\* C1 as stated: every login submission (intent submit) whose credentials do not match a stored
\* user is answered with 'Invalid username or password' as data, status 400, no Set-Cookie.
C1_EverySubmission ==
    FailedSubmission(answered) => InvalidCredentialsResponse(answered.response)

\* C1 amended: every login submission that passes the anonymous guard and whose credentials do
\* not match a stored user leaves the Session Store as it was, and is answered with
\* 'Invalid username or password' as data, status 400 and no Set-Cookie header.
C1_InvalidCredentials ==
    [][(Handled /\ FailedSubmission(answered'))
        => (InvalidCredentialsResponse(answered'.response) /\ StoreUnchanged)]_vars

C1_Witness ==
    /\ FailedSubmission(answered) /\ answered.outcome = "returned"
    /\ answered.response.status = 400
    /\ sessions = [k \in {} |-> 0] /\ nextId = 1

\* ---------------------------------------------------------------------- C2
\* C2: when a login submission with matching credentials is answered, the session id decoded
\* from the response's cookie is the id of the Session record that login created, and that
\* record's userId is the id of the user verified in the same request.
C2_CookieIdentifiesSession ==
    SuccessfulLogin(answered)
    => /\ LoginRedirect(answered.response)
       /\ decode(CookieOf(answered.response)) = Some(LoginSession(answered).id)
       /\ LoginSession(answered).userId = VerifiedUserId(answered.formData)

\* ---------------------------------------------------------------------- C3
\* C3: the Expires attribute of the cookie a successful login emits is the expiresAt of the
\* Session record that login created (absent exactly when expiresAt is null).
C3_CookieExpiryIsSessionExpiry ==
    SuccessfulLogin(answered)
    => answered.response.setCookie.expires = LoginSession(answered).expiresAt

C5_SessionsOnlyAfterVerify ==
    /\ [][/\ \A sid \in DOMAIN sessions' \ DOMAIN sessions :
                /\ Handled /\ SuccessfulLogin(answered')
                /\ sessions'[sid].userId = VerifiedUserId(answered'.formData)
                /\ sessions'[sid].userId \in UserIds
                /\ LoginSession(answered') = sessions'[sid]
          /\ \A sid \in DOMAIN sessions' \cap DOMAIN sessions : sessions'[sid] = sessions[sid]]_vars
    /\ [](answered.response.setCookie.present => SuccessfulLogin(answered))

C5_Witness ==
    /\ SuccessfulLogin(answered) /\ answered.formData.payload["username"] = "bob"
    /\ \E sid \in DOMAIN sessions : sessions[sid].userId = Users["bob"].id

\* ---------------------------------------------------------------------- C6
\* C6: the loader and the action both start with the guard: a request whose cookie encodes a
\* live session is turned away with a redirect, with the store untouched and no Set-Cookie, and
\* goes no further; a request with no cookie, an empty or malformed cookie, or a cookie naming
\* an expired or deleted session proceeds (the loader answers, the action goes on to the parse).
C6_AnonymousGuard ==
    [][Answers
        => IF EncodesLiveSession(answered'.cookieHeader)
           THEN /\ answered'.outcome = "thrown" /\ answered'.response = GuardRedirect
                /\ StoreUnchanged
           ELSE /\ answered'.outcome = "returned" /\ answered'.response # GuardRedirect
                /\ answered'.route = "loader" => answered'.response.kind = "json"
                /\ answered'.route = "action"
                    => answered'.response
                        = actionResult(answered'.cookieHeader, answered'.formData,
                                       sessions, nextId, clock, clock').response]_vars

C6_Witness ==
    /\ answered.route = "action" /\ answered.outcome = "thrown"
    /\ IsSubmit(answered.formData) /\ CredentialsMatch(answered.formData)
    /\ EncodesLiveSession(answered.cookieHeader)

\* ---------------------------------------------------------------------- C7
\* C7: a request to the loader, whatever its cookie, leaves the Session Store unchanged and its
\* response carries no Set-Cookie header.
C7_LoaderIsPureRead ==
    [][(Answers /\ answered'.route = "loader")
        => (StoreUnchanged /\ ~answered'.response.setCookie.present)]_vars

C7_Witness ==
    /\ answered.route = "loader" /\ answered.outcome = "returned"
    /\ answered.cookieHeader.form = "signed"
    /\ answered.cookieHeader.data[sessionKey] \in DOMAIN sessions

\* ---------------------------------------------------------------------- C8
\* C8: had a failed submission differed only in the way it fails (a non-existent username
\* instead of a wrong password for an existing one, or the reverse), the action would have
\* returned the same status, the same error message and the same Set-Cookie, and left the same
\* store.
C8_Undifferentiated ==
    [][(Handled /\ FailedSubmission(answered'))
        => \A other \in FormDatas :
            (/\ IsSubmit(other) /\ ~CredentialsMatch(other)
             /\ Remember(other) = Remember(answered'.formData))
            => LET alt == actionResult(answered'.cookieHeader, other, sessions, nextId, clock, clock')
               IN  /\ alt.response.status = answered'.response.status
                   /\ alt.response.data = answered'.response.data
                   /\ alt.response.submission.error = answered'.response.submission.error
                   /\ alt.response.setCookie = answered'.response.setCookie
                   /\ alt.store = sessions']_vars

C8_Witness ==
    /\ FailedSubmission(answered) /\ answered.outcome = "returned"
    /\ answered.formData.payload["username"] \notin DOMAIN Users
    /\ \E other \in FormDatas :
        /\ IsSubmit(other) /\ ~CredentialsMatch(other)
        /\ other.payload["username"] \in DOMAIN Users

\* ---------------------------------------------------------------------- C9
\* C9: no response of the action carries the submitted password: in the 'idle' and the 400
\* 'error' response the password field is absent from submission.payload and submission.value.
C9_NoPasswordEcho ==
    answered.route = "action"
    => /\ "password" \notin DOMAIN answered.response.submission.payload
       /\ \A value \in answered.response.submission.value : "password" \notin DOMAIN value

C9_Witness ==
    /\ answered.route = "action" /\ answered.response.data = "idle"
    /\ "password" \in DOMAIN answered.formData.payload
    /\ \E value \in answered.response.submission.value : "username" \in DOMAIN value

\* --------------------------------------------------------------------- C10
\* C10 as stated: every request to the action whose intent is not 'submit' is answered with
\* status 'idle', no Set-Cookie header and no redirect.
C10_EveryValidation ==
    (answered.route = "action" /\ IsValidation(answered.formData))
    => IdleResponse(answered.response)

\* C10 amended: a request to the action that passes the anonymous guard and whose intent is not
\* 'submit' never calls login (the store is as it was), and is answered with status 'idle', no
\* Set-Cookie header and no redirect, even when its credentials are valid.
C10_ValidationOnly ==
    [][(Handled /\ IsValidation(answered'.formData))
        => /\ IdleResponse(answered'.response)
           /\ The(answered'.submission.value)["user"] = None
           /\ StoreUnchanged]_vars

C10_Witness ==
    /\ answered.route = "action" /\ answered.outcome = "returned"
    /\ IsValidation(answered.formData) /\ CredentialsMatch(answered.formData)
    /\ answered.response.data = "idle"
    /\ sessions = [k \in {} |-> 0] /\ nextId = 1
====
